---- MODULE Spec2Model ----
(***************************************************************************)
(* Dependency closure traversal (getAllDependencies) and version-range     *)
(* resolution (getLatestVersionForRange) of the npm_packages programs.     *)
(*                                                                         *)
(* Strings the programs inspect character by character (version strings,   *)
(* range expressions) are sequences of character codes; package names and  *)
(* queue keys, which the programs only compare for equality, are tuples:   *)
(* <<name>> is the bare name, <<name, "@", version>> is name@version.      *)
(***************************************************************************)
EXTENDS Integers, Sequences, FiniteSets, TLC

VARIABLES
    oracle,        \* registry: queue key -> the dependency map npm reports for it
    pc,            \* position of getAllDependencies: "idle", "loop", "done", "failed"
    toProcess,     \* the work queue (slice of keys)
    seen,          \* keys k with seen[k] = true
    dependencies,  \* the closure map under construction
    queried,       \* history: keys passed to `npm view <key> dependencies`, in order
    result,        \* the returned (map, error) pair
    rpc,           \* position of getLatestVersionForRange: "idle", "start", "returned"
    program,       \* which program's getLatestVersionForRange ran
    depName,       \* argument packageName of getLatestVersionForRange
    versionRange,  \* argument versionRange of getLatestVersionForRange
    published,     \* the versions array npm reports for depName
    resolved,      \* the returned (string, error) pair
    mainPc,        \* position of main: "traversing", "saving", "saved", "error"
    closure,       \* packageInfo.Dependencies handed to saveLatestVersionsToFile
    registry,      \* registry: package name -> the versions array npm reports
    pending,       \* entries of closure the range loop has not yet yielded
    latestVersions,\* the map saveLatestVersionsToFile assembles
    saveResult,    \* the error saveLatestVersionsToFile returned
    file,          \* the snapshot file at latestFilePath
    trace,         \* whether the history variable lastReply is kept
    lastReply      \* history: (output, err) of the last dependency query

vars == <<oracle, pc, toProcess, seen, dependencies, queried, result,
          rpc, program, depName, versionRange, published, resolved,
          mainPc, closure, registry, pending, latestVersions, saveResult, file,
          trace, lastReply>>

travVars == <<oracle, pc, toProcess, seen, dependencies, queried, result>>
resVars == <<rpc, program, depName, versionRange, published, resolved>>
saveVars == <<mainPc, closure, registry, pending, latestVersions, saveResult, file>>
outVars == <<trace, lastReply>>

(***************************************************************************)
(* Bounds of the model.                                                    *)
(***************************************************************************)
\* at most this many dependency edges in the registry graph
MaxEdges == 4
\* cap on the length of the query history
MaxCalls == 6
\* at most this many entries in a published versions array
MaxPublished == 4

(***************************************************************************)
(* The registry universe.                                                  *)
(***************************************************************************)
NameSeq == <<"a", "b", "c">>
Names == {NameSeq[i] : i \in 1..Len(NameSeq)}
Ranges == {"r1", "r2"}

\* command-line arguments os.Args[1], os.Args[2]
packageName == "a"
packageVersion == "1"

\* fmt.Sprintf("%s@%s", packageName, packageVersion)
RootKey == <<packageName, "@", packageVersion>>
\* a dependency is enqueued by its bare name
BareKey(n) == <<n>>
NameOf(key) == key[1]

Keys == {RootKey} \cup {BareKey(n) : n \in Names}

EmptyMap == [n \in {} |-> "r1"]
Nil == [nil |-> TRUE]

Slots == Keys \X Names

Graphs ==
    UNION {
        { [k \in Keys |-> [n \in {m \in Names : <<k, m>> \in E} |-> rg[<<k, n>>]]]
            : rg \in [E -> Ranges] }
        : E \in {S \in SUBSET Slots : Cardinality(S) <= MaxEdges} }

(***************************************************************************)
(* npm view <key> dependencies --json, as seen through CombinedOutput.     *)
(***************************************************************************)
Text(kind, deps) == [kind |-> kind, deps |-> deps]

\* what the command can produce for a key: (output, err)
NpmViewDependencies(key) ==
    LET d == oracle[key] IN
    { [err |-> FALSE, output |-> Text("object", d)],
      [err |-> FALSE, output |-> Text("garbage", EmptyMap)],
      [err |-> TRUE, output |-> Text("garbage", EmptyMap)] }
    \cup (IF DOMAIN d = {}
          THEN { [err |-> FALSE, output |-> Text("empty", EmptyMap)],
                 [err |-> FALSE, output |-> Text("null", EmptyMap)] }
          ELSE {})

\* an output passed on as it came
NormalizeOutputSkipped(output) == output

\* if len(output) == 0 || string(output) == "null" { output = []byte("{}") }
NormalizeOutput(output) ==
    IF output.kind \in {"empty", "null"} THEN Text("object", EmptyMap) ELSE output

\* json.Unmarshal(output, &deps): an object fills the map, null leaves it
\* nil, anything else (the empty input included) is an error
Unmarshal(output) ==
    IF output.kind = "object"
    THEN [err |-> FALSE, deps |-> output.deps]
    ELSE IF output.kind = "null"
    THEN [err |-> FALSE, deps |-> EmptyMap]
    ELSE [err |-> TRUE, deps |-> EmptyMap]

(***************************************************************************)
(* getAllDependencies                                                      *)
(***************************************************************************)
\* seen[key]
Seen(s, key) == key \in s

\* a loop that forgets to record what it has visited
MarkSeenForgotten(s, key) == s

\* seen[current] = true
MarkSeen(s, key) == s \cup {key}

\* a write that keeps the range already present
WriteDepKeepFirst(d, dep, r) ==
    IF dep \in DOMAIN d THEN d ELSE [n \in DOMAIN d \cup {dep} |-> IF n = dep THEN r ELSE d[n]]

\* dependencies[dep] = versionRange
WriteDep(d, dep, r) ==
    [n \in DOMAIN d \cup {dep} |-> IF n = dep THEN r ELSE d[n]]

\* the seen test with its negation dropped
EnqueueInverted(q, s, dep) ==
    IF Seen(s, BareKey(dep)) THEN Append(q, BareKey(dep)) ELSE q

\* a push on the front of the queue
EnqueueFront(q, s, dep) ==
    IF ~Seen(s, BareKey(dep)) THEN <<BareKey(dep)>> \o q ELSE q

\* if !seen[dep] { toProcess = append(toProcess, dep) }
Enqueue(q, s, dep) ==
    IF ~Seen(s, BareKey(dep)) THEN Append(q, BareKey(dep)) ELSE q

\* the orders in which `range deps` may yield the keys of a map
Orders(S) ==
    {o \in [1..Cardinality(S) -> S] : \A i, j \in DOMAIN o : i # j => o[i] # o[j]}

\* for dep, versionRange := range deps { ... }, iterating in the given order
RECURSIVE RangeDeps(_, _, _, _, _)
RangeDeps(order, deps, d, q, s) ==
    IF order = <<>>
    THEN [dependencies |-> d, toProcess |-> q]
    ELSE LET dep == Head(order) IN
         RangeDeps(Tail(order), deps,
                   WriteDep(d, dep, deps[dep]), Enqueue(q, s, dep), s)

\* the value the history variable takes when a query returns
Record(r) == IF trace THEN r ELSE lastReply

TravInit ==
    /\ oracle \in Graphs
    /\ pc = "loop"
    /\ toProcess = <<RootKey>>
    /\ seen = {}
    /\ dependencies = EmptyMap
    /\ queried = <<>>
    /\ result = Nil
    /\ lastReply = Nil

\* if seen[current] { continue }
SkipSeen ==
    /\ pc = "loop"
    /\ toProcess # <<>>
    /\ Seen(seen, Head(toProcess))
    /\ toProcess' = Tail(toProcess)
    /\ UNCHANGED <<oracle, pc, seen, dependencies, queried, result>>
    /\ UNCHANGED outVars
    /\ UNCHANGED resVars
    /\ UNCHANGED saveVars

\* one iteration of the loop body that runs the query and merges its pairs
Visit ==
    /\ pc = "loop"
    /\ toProcess # <<>>
    /\ Len(queried) < MaxCalls
    /\ LET current == Head(toProcess) IN
       /\ ~Seen(seen, current)
       /\ seen' = MarkSeen(seen, current)
       /\ queried' = Append(queried, current)
       /\ \E r \in NpmViewDependencies(current) :
            /\ ~r.err
            /\ lastReply' = Record(r)
            /\ LET u == Unmarshal(NormalizeOutput(r.output)) IN
               /\ ~u.err
               /\ \E order \in Orders(DOMAIN u.deps) :
                    LET st == RangeDeps(order, u.deps, dependencies,
                                        Tail(toProcess), seen') IN
                    /\ dependencies' = st.dependencies
                    /\ toProcess' = st.toProcess
    /\ UNCHANGED <<oracle, pc, result, trace>>
    /\ UNCHANGED resVars
    /\ UNCHANGED saveVars

\* the command fails: return nil, err
VisitCommandError ==
    /\ pc = "loop"
    /\ toProcess # <<>>
    /\ Len(queried) < MaxCalls
    /\ LET current == Head(toProcess) IN
       /\ ~Seen(seen, current)
       /\ seen' = MarkSeen(seen, current)
       /\ queried' = Append(queried, current)
       /\ \E r \in NpmViewDependencies(current) :
            /\ r.err
            /\ lastReply' = Record(r)
    /\ toProcess' = Tail(toProcess)
    /\ pc' = "failed"
    /\ result' = [deps |-> Nil, err |-> "exec"]
    /\ UNCHANGED <<oracle, dependencies, trace>>
    /\ UNCHANGED resVars
    /\ UNCHANGED saveVars

\* the output does not parse: return nil, err
VisitParseError ==
    /\ pc = "loop"
    /\ toProcess # <<>>
    /\ Len(queried) < MaxCalls
    /\ LET current == Head(toProcess) IN
       /\ ~Seen(seen, current)
       /\ seen' = MarkSeen(seen, current)
       /\ queried' = Append(queried, current)
       /\ \E r \in NpmViewDependencies(current) :
            /\ ~r.err
            /\ lastReply' = Record(r)
            /\ Unmarshal(NormalizeOutput(r.output)).err
    /\ toProcess' = Tail(toProcess)
    /\ pc' = "failed"
    /\ result' = [deps |-> Nil, err |-> "json"]
    /\ UNCHANGED <<oracle, dependencies, trace>>
    /\ UNCHANGED resVars
    /\ UNCHANGED saveVars

\* len(toProcess) == 0: return dependencies, nil
Return ==
    /\ pc = "loop"
    /\ toProcess = <<>>
    /\ pc' = "done"
    /\ result' = [deps |-> dependencies, err |-> "nil"]
    /\ UNCHANGED <<oracle, toProcess, seen, dependencies, queried>>
    /\ UNCHANGED outVars
    /\ UNCHANGED resVars
    /\ UNCHANGED saveVars

(***************************************************************************)
(* Version strings and range expressions, as character codes.              *)
(* '.' is 46, '0'..'9' are 48..57, '=' is 61, '>' is 62, '^' is 94,        *)
(* 'x' is 120, '~' is 126.                                                 *)
(***************************************************************************)
RECURSIVE Digits(_)
Digits(n) == IF n < 10 THEN <<48 + n>> ELSE Append(Digits(n \div 10), 48 + (n % 10))

\* the text "major.minor.patch"
VersionString(t) == Digits(t[1]) \o <<46>> \o Digits(t[2]) \o <<46>> \o Digits(t[3])

Triples == {<<1, 0, 0>>, <<1, 2, 0>>, <<1, 9, 9>>, <<2, 0, 0>>, <<9, 0, 0>>, <<10, 0, 0>>}

\* a published entry that is no version at all
Junk == <<120>>

VersionStrings == {VersionString(t) : t \in Triples} \cup {Junk}

OpString(op) ==
    CASE op = "^" -> <<94>>
      [] op = "~" -> <<126>>
      [] op = ">=" -> <<62, 61>>
      [] op = "=" -> <<>>

RangeExprs ==
    { [op |-> "^", base |-> <<1, 0, 0>>],
      [op |-> "^", base |-> <<2, 0, 0>>],
      [op |-> ">=", base |-> <<0, 0, 0>>],
      [op |-> "~", base |-> <<1, 2, 0>>],
      [op |-> "=", base |-> <<10, 0, 0>>] }

RangeString(e) == OpString(e.op) \o VersionString(e.base)

\* expressions that are no constraint: "x" and a caret with no version
BadRanges == {Junk, <<94>>}

RangeStrings == {RangeString(e) : e \in RangeExprs} \cup BadRanges

PublishedLists == UNION {[1..n -> VersionStrings] : n \in 0..MaxPublished}

(***************************************************************************)
(* github.com/Masterminds/semver/v3, as the programs use it.               *)
(***************************************************************************)
IsDigit(c) == c \in 48..57

\* the fields of s between dots
RECURSIVE Fields(_, _, _)
Fields(s, cur, acc) ==
    IF s = <<>> THEN Append(acc, cur)
    ELSE IF Head(s) = 46 THEN Fields(Tail(s), <<>>, Append(acc, cur))
    ELSE Fields(Tail(s), Append(cur, Head(s)), acc)

RECURSIVE Atoi(_, _)
Atoi(f, n) == IF f = <<>> THEN n ELSE Atoi(Tail(f), 10 * n + (Head(f) - 48))

IsNumber(f) == f # <<>> /\ \A i \in DOMAIN f : IsDigit(f[i])

\* semver.NewVersion(version): one to three numeric fields, missing ones 0
NewVersion(version) ==
    LET fs == Fields(version, <<>>, <<>>)
        num(i) == IF i <= Len(fs) THEN Atoi(fs[i], 0) ELSE 0
    IN IF Len(fs) \in 1..3 /\ \A i \in DOMAIN fs : IsNumber(fs[i])
       THEN [err |-> FALSE, v |-> <<num(1), num(2), num(3)>>]
       ELSE [err |-> TRUE, v |-> <<0, 0, 0>>]

\* Version.Compare: -1, 0 or 1 by major, then minor, then patch
Compare(v, w) ==
    IF v[1] # w[1] THEN (IF v[1] < w[1] THEN -1 ELSE 1)
    ELSE IF v[2] # w[2] THEN (IF v[2] < w[2] THEN -1 ELSE 1)
    ELSE IF v[3] # w[3] THEN (IF v[3] < w[3] THEN -1 ELSE 1)
    ELSE 0

\* semver.NewConstraint(versionRange): an operator, then a version
NewConstraint(range) ==
    LET op == IF range # <<>> /\ Head(range) = 94 THEN "^"
              ELSE IF range # <<>> /\ Head(range) = 126 THEN "~"
              ELSE IF Len(range) >= 2 /\ range[1] = 62 /\ range[2] = 61 THEN ">="
              ELSE IF range # <<>> /\ Head(range) = 61 THEN "="
              ELSE ""
        skip == IF op = ">=" THEN 2 ELSE IF op = "" THEN 0 ELSE 1
        nv == NewVersion(SubSeq(range, skip + 1, Len(range)))
    IN [err |-> nv.err, op |-> IF op = "" THEN "=" ELSE op, con |-> nv.v]

\* Constraints.Check(v)
Check(c, v) ==
    CASE c.op = ">=" -> Compare(v, c.con) >= 0
      [] c.op = "=" -> Compare(v, c.con) = 0
      [] c.op = "~" ->
            Compare(v, c.con) >= 0 /\ v[1] = c.con[1] /\ v[2] = c.con[2]
      [] c.op = "^" ->
            /\ Compare(v, c.con) >= 0
            /\ IF c.con[1] > 0 THEN v[1] = c.con[1]
               ELSE IF v[1] > 0 THEN FALSE
               ELSE IF c.con[2] > 0 THEN v[2] = c.con[2]
               ELSE IF v[2] > 0 THEN FALSE
               ELSE v[3] = c.con[3]

\* strings.Compare(a, b): bytewise lexicographic order
RECURSIVE StringsCompare(_, _)
StringsCompare(a, b) ==
    IF a = <<>> /\ b = <<>> THEN 0
    ELSE IF a = <<>> THEN -1
    ELSE IF b = <<>> THEN 1
    ELSE IF Head(a) < Head(b) THEN -1
    ELSE IF Head(a) > Head(b) THEN 1
    ELSE StringsCompare(Tail(a), Tail(b))

(***************************************************************************)
(* getLatestVersionForRange                                                *)
(***************************************************************************)
NoError == [msg |-> "nil", pkg |-> "", range |-> <<>>]
ExecError == [msg |-> "exec", pkg |-> "", range |-> <<>>]
JsonError == [msg |-> "json", pkg |-> "", range |-> <<>>]

\* fmt.Errorf("no version found for %s in range %s", packageName, versionRange)
NoVersionFound(name, range) ==
    [msg |-> "no version found", pkg |-> name, range |-> range]

IsVersionInRange(version, range) ==
    LET r == NewConstraint(range) IN
    IF r.err THEN FALSE
    ELSE LET v == NewVersion(version) IN
         IF v.err THEN FALSE ELSE Check(r, v.v)

\* a comparison of the version texts instead of their numbers
CompareVersionsAsText(v1, v2) == StringsCompare(v1, v2)

\* compareVersions of the transitive-closure program
CompareVersions(v1, v2) ==
    LET v1Ver == NewVersion(v1) IN
    IF v1Ver.err THEN 0
    ELSE LET v2Ver == NewVersion(v2) IN
         IF v2Ver.err THEN 0 ELSE Compare(v1Ver.v, v2Ver.v)

\* compareVersions of the direct-dependency program
CompareVersionsDirect(v1, v2) == StringsCompare(v1, v2)

\* for _, version := range versions { ... }, transitive-closure program
RECURSIVE LatestLoop(_, _, _)
LatestLoop(versions, range, latestVersion) ==
    IF versions = <<>> THEN latestVersion
    ELSE LET version == Head(versions) IN
         LatestLoop(Tail(versions), range,
             IF /\ IsVersionInRange(version, range)
                /\ (latestVersion = <<>> \/ CompareVersions(version, latestVersion) > 0)
             THEN version ELSE latestVersion)

\* the same loop of the direct-dependency program
RECURSIVE LatestLoopDirect(_, _, _)
LatestLoopDirect(versions, range, latestVersion) ==
    IF versions = <<>> THEN latestVersion
    ELSE LET version == Head(versions) IN
         LatestLoopDirect(Tail(versions), range,
             IF /\ IsVersionInRange(version, range)
                /\ (latestVersion = <<>>
                    \/ CompareVersionsDirect(version, latestVersion) > 0)
             THEN version ELSE latestVersion)

\* a return that skips the empty test
ReturnLatestUnchecked(name, range, latestVersion) ==
    [version |-> latestVersion, err |-> NoError]

\* if latestVersion == "" { return "", error } return latestVersion, nil
ReturnLatest(name, range, latestVersion) ==
    IF latestVersion = <<>>
    THEN [version |-> <<>>, err |-> NoVersionFound(name, range)]
    ELSE [version |-> latestVersion, err |-> NoError]

GetLatestVersionForRange(name, range, versions) ==
    ReturnLatest(name, range, LatestLoop(versions, range, <<>>))

GetLatestVersionForRangeDirect(name, range, versions) ==
    ReturnLatest(name, range, LatestLoopDirect(versions, range, <<>>))

Programs == {"closure", "direct"}

\* the dependency names the call is made for
DepNames == {"b", "c"}

ResInit ==
    /\ rpc = "start"
    /\ program = "none"
    /\ depName \in DepNames
    /\ versionRange \in RangeStrings
    /\ published \in PublishedLists
    /\ resolved = Nil

\* the call in the transitive-closure program, the versions array fetched
Resolve ==
    /\ rpc = "start"
    /\ rpc' = "returned"
    /\ program' = "closure"
    /\ resolved' = GetLatestVersionForRange(depName, versionRange, published)
    /\ UNCHANGED <<depName, versionRange, published>>
    /\ UNCHANGED travVars
    /\ UNCHANGED saveVars
    /\ UNCHANGED outVars

\* the call in the direct-dependency program, the versions array fetched
ResolveDirect ==
    /\ rpc = "start"
    /\ rpc' = "returned"
    /\ program' = "direct"
    /\ resolved' = GetLatestVersionForRangeDirect(depName, versionRange, published)
    /\ UNCHANGED <<depName, versionRange, published>>
    /\ UNCHANGED travVars
    /\ UNCHANGED saveVars
    /\ UNCHANGED outVars

\* cmd.Output() fails: return "", err
ResolveCommandError ==
    /\ rpc = "start"
    /\ rpc' = "returned"
    /\ program' \in Programs
    /\ resolved' = [version |-> <<>>, err |-> ExecError]
    /\ UNCHANGED <<depName, versionRange, published>>
    /\ UNCHANGED travVars
    /\ UNCHANGED saveVars
    /\ UNCHANGED outVars

\* json.Unmarshal(output, &versions) fails: return "", err
ResolveParseError ==
    /\ rpc = "start"
    /\ rpc' = "returned"
    /\ program' \in Programs
    /\ resolved' = [version |-> <<>>, err |-> JsonError]
    /\ UNCHANGED <<depName, versionRange, published>>
    /\ UNCHANGED travVars
    /\ UNCHANGED saveVars
    /\ UNCHANGED outVars

(***************************************************************************)
(* saveLatestVersionsToFile and the part of main around it.                *)
(***************************************************************************)
AbsentFile == [state |-> "absent", content |-> Nil]

NoSaveError == [msg |-> "nil", dep |-> "", cause |-> NoError]
CreateError == [msg |-> "error creating file", dep |-> "", cause |-> NoError]
WriteError == [msg |-> "error writing JSON to file", dep |-> "", cause |-> NoError]

\* fmt.Errorf("error fetching latest version for %s: %w", dep, err)
FetchLatestError(dep, err) ==
    [msg |-> "error fetching latest version", dep |-> dep, cause |-> err]

\* PackageInfo{Name: ..., Version: ..., Dependencies: deps}
PackageInfo(deps) ==
    [name |-> packageName, version |-> packageVersion, dependencies |-> deps]

\* what getLatestVersionForRange(dep, versionRange) can return
ResolveOutcomes(dep, range) ==
    { GetLatestVersionForRange(dep, range, registry[dep]),
      [version |-> <<>>, err |-> ExecError],
      [version |-> <<>>, err |-> JsonError] }

\* an error test that never fires
SaveFailsOnNothing(r) == FALSE

\* if err != nil, after the call of getLatestVersionForRange
SaveFailsOn(r) == r.err # NoError

\* latestVersions[dep] = latestVersion
PutLatest(m, dep, v) ==
    [n \in DOMAIN m \cup {dep} |-> IF n = dep THEN v ELSE m[n]]

\* the range texts behind the ranges of the traversal's registry
RangeText(r) ==
    IF r = "r1" THEN RangeString([op |-> "^", base |-> <<1, 0, 0>>])
    ELSE RangeString([op |-> "^", base |-> <<2, 0, 0>>])

\* the dependencies main hands over: a nil map has no entries
ClosureText(deps) ==
    IF deps = Nil THEN EmptyMap ELSE [n \in DOMAIN deps |-> RangeText(deps[n])]

\* the versions arrays of the registry main runs against
MainRegistry ==
    [n \in Names |->
        IF n = "a" THEN <<VersionString(<<1, 0, 0>>), VersionString(<<1, 9, 9>>)>>
        ELSE IF n = "b" THEN <<VersionString(<<2, 0, 0>>)>>
        ELSE <<VersionString(<<1, 0, 0>>), VersionString(<<2, 0, 0>>)>>]

SaveIdle ==
    /\ mainPc = "traversing"
    /\ closure = EmptyMap
    /\ registry = MainRegistry
    /\ pending = {}
    /\ latestVersions = EmptyMap
    /\ saveResult = Nil
    /\ file = AbsentFile

\* closures and registries saveLatestVersionsToFile is run on by itself
SaveRangeTexts ==
    { RangeString([op |-> "^", base |-> <<1, 0, 0>>]),
      RangeString([op |-> "^", base |-> <<2, 0, 0>>]),
      Junk }

SaveClosures == UNION {[S -> SaveRangeTexts] : S \in SUBSET Names}

SaveLists ==
    { <<>>,
      <<VersionString(<<1, 0, 0>>), VersionString(<<1, 9, 9>>)>>,
      <<VersionString(<<2, 0, 0>>)>> }

SaveInit ==
    /\ mainPc = "saving"
    /\ closure \in SaveClosures
    /\ registry \in [Names -> SaveLists]
    /\ pending = DOMAIN closure
    /\ latestVersions = EmptyMap
    /\ saveResult = Nil
    /\ file = AbsentFile

\* one iteration of the range loop whose entry resolves
SaveEntry ==
    /\ mainPc = "saving"
    /\ pending # {}
    /\ \E dep \in pending :
         \E r \in ResolveOutcomes(dep, closure[dep]) :
            /\ ~SaveFailsOn(r)
            /\ latestVersions' = PutLatest(latestVersions, dep, r.version)
            /\ pending' = pending \ {dep}
    /\ UNCHANGED <<mainPc, closure, registry, saveResult, file>>
    /\ UNCHANGED <<travVars, resVars, outVars>>

\* one iteration whose entry does not resolve: the function returns the
\* wrapped error and main prints it and returns
SaveEntryError ==
    /\ mainPc = "saving"
    /\ pending # {}
    /\ \E dep \in pending :
         \E r \in ResolveOutcomes(dep, closure[dep]) :
            /\ SaveFailsOn(r)
            /\ saveResult' = FetchLatestError(dep, r.err)
    /\ mainPc' = "error"
    /\ UNCHANGED <<closure, registry, pending, latestVersions, file>>
    /\ UNCHANGED <<travVars, resVars, outVars>>

\* the loop is over and os.Create fails
SaveCreateError ==
    /\ mainPc = "saving"
    /\ pending = {}
    /\ saveResult' = CreateError
    /\ mainPc' = "error"
    /\ UNCHANGED <<closure, registry, pending, latestVersions, file>>
    /\ UNCHANGED <<travVars, resVars, outVars>>

\* the file is created and encoder.Encode fails
SaveWriteError ==
    /\ mainPc = "saving"
    /\ pending = {}
    /\ file' = [state |-> "created", content |-> Nil]
    /\ saveResult' = WriteError
    /\ mainPc' = "error"
    /\ UNCHANGED <<closure, registry, pending, latestVersions>>
    /\ UNCHANGED <<travVars, resVars, outVars>>

\* the file is created and the snapshot is written: return nil
SaveWritten ==
    /\ mainPc = "saving"
    /\ pending = {}
    /\ file' = [state |-> "written", content |-> PackageInfo(latestVersions)]
    /\ saveResult' = NoSaveError
    /\ mainPc' = "saved"
    /\ UNCHANGED <<closure, registry, pending, latestVersions>>
    /\ UNCHANGED <<travVars, resVars, outVars>>

NextSave ==
    \/ SaveEntry
    \/ SaveEntryError
    \/ SaveCreateError
    \/ SaveWriteError
    \/ SaveWritten

\* a main that goes on whatever getAllDependencies returned
MainStopsNever(res) == FALSE

\* allDependencies, err := getAllDependencies(...); if err != nil
MainStops(res) == res.err # "nil"

\* main prints the traversal's error and returns
MainError ==
    /\ mainPc = "traversing"
    /\ pc \in {"done", "failed"}
    /\ MainStops(result)
    /\ mainPc' = "error"
    /\ UNCHANGED <<closure, registry, pending, latestVersions, saveResult, file>>
    /\ UNCHANGED <<travVars, resVars, outVars>>

\* main builds packageInfo and calls saveLatestVersionsToFile
MainSave ==
    /\ mainPc = "traversing"
    /\ pc \in {"done", "failed"}
    /\ ~MainStops(result)
    /\ mainPc' = "saving"
    /\ closure' = ClosureText(result.deps)
    /\ pending' = DOMAIN closure'
    /\ latestVersions' = EmptyMap
    /\ UNCHANGED <<registry, saveResult, file>>
    /\ UNCHANGED <<travVars, resVars, outVars>>

TravIdle ==
    /\ oracle = [k \in Keys |-> EmptyMap]
    /\ pc = "idle"
    /\ toProcess = <<>>
    /\ seen = {}
    /\ dependencies = EmptyMap
    /\ queried = <<>>
    /\ result = Nil
    /\ trace = FALSE
    /\ lastReply = Nil

InitResolve == TravIdle /\ ResInit /\ SaveIdle

NextResolve ==
    \/ Resolve
    \/ ResolveDirect
    \/ ResolveCommandError
    \/ ResolveParseError

SpecResolve == InitResolve /\ [][NextResolve]_vars

ResIdle ==
    /\ rpc = "idle"
    /\ program = "none"
    /\ depName = "a"
    /\ versionRange = <<>>
    /\ published = <<>>
    /\ resolved = Nil

Init == TravInit /\ trace = FALSE /\ ResIdle /\ SaveIdle

Next ==
    \/ SkipSeen
    \/ Visit
    \/ VisitCommandError
    \/ VisitParseError
    \/ Return

Spec == Init /\ [][Next]_vars

\* the loop is sequential code: whenever a step is possible, one is taken
SpecLive == Spec /\ WF_vars(Next)

InitSave == TravIdle /\ ResIdle /\ SaveInit

SpecSave == InitSave /\ [][NextSave]_vars

NextMain ==
    \/ Next
    \/ MainError
    \/ MainSave
    \/ NextSave

\* the whole transitive-closure program
SpecMain == Init /\ [][NextMain]_vars

\* the same program with the history variable lastReply kept
InitTraced == TravInit /\ trace = TRUE /\ ResIdle /\ SaveIdle

SpecTraced == InitTraced /\ [][NextMain]_vars

\* getAllDependencies alone with the history variable lastReply kept
SpecTrace == InitTraced /\ [][Next]_vars

(***************************************************************************)
(* Graph notions the properties are stated with.                           *)
(***************************************************************************)
\* names declared by the packages of a set of names, queried by bare name
DeclaredBy(S) == UNION {DOMAIN oracle[BareKey(n)] : n \in S}

RECURSIVE Grow(_, _)
Grow(S, k) == IF k = 0 THEN S ELSE Grow(S \cup DeclaredBy(S), k - 1)

\* names reachable from the root by one or more dependency edges
Reachable == Grow(DOMAIN oracle[RootKey], Cardinality(Names))

\* some visited package lies on a dependency cycle
OnCycle(n) == n \in Grow(DeclaredBy({n}), Cardinality(Names))

Returned == pc \in {"done", "failed"}

\* positions in the query history of the packages that declare name x
Declarers(x) == {i \in DOMAIN queried : x \in DOMAIN oracle[queried[i]]}

LastDeclarer(x) == CHOOSE i \in Declarers(x) : \A j \in Declarers(x) : j <= i

\* the keys of a map in the fixed order of NameSeq
SortedOrder(S) == SelectSeq(NameSeq, LAMBDA n : n \in S)

\* the traversal with every map iterated in SortedOrder
RECURSIVE SortedRun(_, _, _)
SortedRun(q, s, d) ==
    IF q = <<>> THEN d
    ELSE LET current == Head(q) IN
         IF Seen(s, current) THEN SortedRun(Tail(q), s, d)
         ELSE LET s2 == MarkSeen(s, current)
                  deps == oracle[current]
                  st == RangeDeps(SortedOrder(DOMAIN deps), deps, d, Tail(q), s2)
              IN SortedRun(st.toProcess, s2, st.dependencies)

(***************************************************************************)
(* Properties of getAllDependencies.                                       *)
(***************************************************************************)
\* C1: on every finite dependency graph, cyclic ones and self-dependencies
\* included, getAllDependencies returns, and when it returns its map the
\* work queue is empty.
C1_Terminates == <>Returned /\ [](pc = "done" => toProcess = <<>>)

C1_Witness ==
    /\ pc = "done"
    /\ toProcess = <<>>
    /\ \E i \in DOMAIN queried : OnCycle(NameOf(queried[i]))
    /\ \E n \in Names : n \in DOMAIN oracle[BareKey(n)] /\ BareKey(n) \in seen

\* C2: the number of dependency queries never exceeds the number of distinct
\* package names reachable from the root, the root's own name counted once.
C2_QueryBound ==
    Len(queried) <= Cardinality({packageName} \cup Reachable)

\* C3: no package name is queried for its dependencies more than once in a
\* run, the root's name (first queried as name@version) included.
C3_NameQueriedOnce ==
    \A i, j \in DOMAIN queried :
        i # j => NameOf(queried[i]) # NameOf(queried[j])

\* C4: the returned closure does not depend on the order in which the pairs
\* of a dependency map are iterated: every run returns the map that the run
\* iterating every map in name order returns.
C4_OrderIndependent ==
    pc = "done" => result.deps = SortedRun(<<RootKey>>, {}, EmptyMap)

\* C5: on return the entry of every name is the range declared by the
\* last-dequeued queried package that declares it; so of two queried
\* declarers A (earlier) and B (later, and the last one), B's range stands.
C5_LastWriteWins ==
    pc = "done" =>
        /\ \A x \in DOMAIN result.deps :
              /\ Declarers(x) # {}
              /\ result.deps[x] = oracle[queried[LastDeclarer(x)]][x]
        /\ \A x \in Names : \A a, b \in Declarers(x) :
              (a < b /\ \A c \in Declarers(x) : c <= b)
                  => result.deps[x] = oracle[queried[b]][x]

C5_Witness ==
    /\ pc = "done"
    /\ \E x \in Names : \E a, b \in Declarers(x) :
          /\ a < b
          /\ \A c \in Declarers(x) : c <= b
          /\ oracle[queried[a]][x] # oracle[queried[b]][x]
          /\ result.deps[x] = oracle[queried[b]][x]

\* C6: on a successful return the key set of the map is exactly the set of
\* names reachable from the root by one or more edges, the root's edges being
\* those reported for name@version and every other package's those reported
\* for its bare name.
C6_KeysAreReachable ==
    pc = "done" => DOMAIN result.deps = Reachable

C6_Witness ==
    /\ pc = "done"
    /\ DOMAIN result.deps = Reachable
    /\ \E n \in Reachable : n \notin DOMAIN oracle[RootKey]
    /\ \E n \in Names : n \notin Reachable /\ DOMAIN oracle[BareKey(n)] # {}

(***************************************************************************)
(* What a version text and a range expression mean, stated on the numbers  *)
(* they were written from.                                                 *)
(***************************************************************************)
IsVersionText(s) == \E t \in Triples : VersionString(t) = s
TripleOf(s) == CHOOSE t \in Triples : VersionString(t) = s

ValidRange(r) == \E e \in RangeExprs : RangeString(e) = r
ExprOf(r) == CHOOSE e \in RangeExprs : RangeString(e) = r

Greater(t, u) ==
    \/ t[1] > u[1]
    \/ t[1] = u[1] /\ t[2] > u[2]
    \/ t[1] = u[1] /\ t[2] = u[2] /\ t[3] > u[3]

Satisfies(t, e) ==
    CASE e.op = ">=" -> ~Greater(e.base, t)
      [] e.op = "=" -> t = e.base
      [] e.op = "~" -> t[1] = e.base[1] /\ t[2] = e.base[2] /\ t[3] >= e.base[3]
      [] e.op = "^" ->
            /\ ~Greater(e.base, t)
            /\ IF e.base[1] > 0 THEN t[1] = e.base[1]
               ELSE IF e.base[2] > 0 THEN t[1] = 0 /\ t[2] = e.base[2]
               ELSE t = e.base

\* the published versions that satisfy the range of the call
SatisfyingPublished ==
    IF ~ValidRange(versionRange) THEN {}
    ELSE { published[i] : i \in { j \in DOMAIN published :
               /\ IsVersionText(published[j])
               /\ Satisfies(TripleOf(published[j]), ExprOf(versionRange)) } }

\* the call returned and the versions array had been fetched and parsed
Fetched == rpc = "returned" /\ resolved.err.msg \notin {"exec", "json"}

IsMaximumSatisfying(v) ==
    /\ v \in SatisfyingPublished
    /\ \A w \in SatisfyingPublished : ~Greater(TripleOf(w), TripleOf(v))

(***************************************************************************)
(* Properties of getLatestVersionForRange.                                 *)
(***************************************************************************)
\* C7: in the transitive-closure program, with a valid range that some
\* published version satisfies, the call returns a published version that
\* satisfies the range and that no satisfying published version exceeds in
\* (major, minor, patch), whatever the order of the published list.
C7_MaximumSatisfying ==
    (Fetched /\ program = "closure" /\ SatisfyingPublished # {}) =>
        /\ resolved.err = NoError
        /\ IsMaximumSatisfying(resolved.version)

C7_Witness ==
    /\ Fetched /\ program = "closure"
    /\ versionRange = RangeString([op |-> "^", base |-> <<1, 0, 0>>])
    /\ published = <<VersionString(<<1, 0, 0>>), VersionString(<<1, 2, 0>>),
                     VersionString(<<1, 9, 9>>), VersionString(<<2, 0, 0>>)>>
    /\ resolved.version = VersionString(<<1, 9, 9>>)

\* C8: in the direct-dependency program the call orders the satisfying
\* versions by their numbers, not as text: it returns the satisfying
\* published version with the greatest (major, minor, patch).
C8_NumericOrder ==
    (Fetched /\ program = "direct" /\ SatisfyingPublished # {}) =>
        /\ resolved.err = NoError
        /\ IsMaximumSatisfying(resolved.version)

C10_NoMatchFailure ==
    (Fetched /\ program = "closure") =>
        /\ (ValidRange(versionRange) /\ SatisfyingPublished = {}) =>
              /\ resolved.version = <<>>
              /\ resolved.err = NoVersionFound(depName, versionRange)
        /\ resolved.err = NoError =>
              /\ resolved.version # <<>>
              /\ resolved.version \in SatisfyingPublished

C10_Witness ==
    /\ Fetched /\ program = "closure"
    /\ published = <<VersionString(<<1, 0, 0>>)>>
    /\ versionRange = RangeString([op |-> "^", base |-> <<2, 0, 0>>])
    /\ resolved.version = <<>>
    /\ resolved.err.msg = "no version found"
    /\ resolved.err.pkg = depName
    /\ resolved.err.range = versionRange

(***************************************************************************)
(* Properties of saveLatestVersionsToFile and main.                        *)
(***************************************************************************)
\* the registry publishes a version that satisfies the entry's range
Resolvable(dep) ==
    /\ ValidRange(closure[dep])
    /\ \E i \in DOMAIN registry[dep] :
          /\ IsVersionText(registry[dep][i])
          /\ Satisfies(TripleOf(registry[dep][i]), ExprOf(closure[dep]))

ResolutionFailed ==
    saveResult # Nil /\ saveResult.msg = "error fetching latest version"

\* C11: if the resolution of any entry of the closure fails inside
\* saveLatestVersionsToFile, the function returns that failure and no
\* snapshot file is created or written, however many other entries resolved
\* and in whatever order the entries are visited; the failed entry is not
\* assembled into the result.
C11_FailFast ==
    /\ (\E dep \in DOMAIN closure : ~Resolvable(dep)) =>
          /\ file = AbsentFile
          /\ mainPc # "saved"
          /\ (mainPc = "error" /\ saveResult.cause.msg = "no version found") =>
                ~Resolvable(saveResult.dep)
    /\ ResolutionFailed =>
          /\ mainPc = "error"
          /\ file = AbsentFile
          /\ saveResult.cause # NoError
          /\ saveResult.dep \in DOMAIN closure
          /\ saveResult.dep \notin DOMAIN latestVersions
          /\ saveResult.cause.msg = "no version found" =>
                saveResult.cause = NoVersionFound(saveResult.dep, closure[saveResult.dep])
    /\ mainPc = "saved" =>
          /\ file.state = "written"
          /\ DOMAIN file.content.dependencies = DOMAIN closure

C11_Witness ==
    /\ ResolutionFailed
    /\ saveResult.cause.msg = "no version found"
    /\ ~Resolvable(saveResult.dep)
    /\ Cardinality(DOMAIN latestVersions) = 2
    /\ \A dep \in DOMAIN latestVersions : Resolvable(dep)
    /\ file = AbsentFile

\* the last dependency query failed: the command erred or its output is no JSON
ReplyFailed == lastReply # Nil /\ (lastReply.err \/ lastReply.output.kind = "garbage")

\* C12: if a dependency query fails (the command errs or its output does
\* not parse), the traversal stops there, returns the error and no map, not
\* the entries collected so far, issues no further query, and the program
\* writes no snapshot.
C12_TraversalAborts ==
    /\ [](ReplyFailed => pc = "failed")
    /\ [](pc = "failed" =>
            /\ result.deps = Nil
            /\ result.err # "nil"
            /\ file = AbsentFile
            /\ mainPc \in {"traversing", "error"})
    /\ [][pc = "failed" =>
            (pc' = "failed" /\ queried' = queried /\ result' = result
             /\ file' = AbsentFile)]_vars

C12_Witness ==
    /\ ReplyFailed
    /\ pc = "failed"
    /\ mainPc = "error"
    /\ Len(queried) >= 2
    /\ DOMAIN dependencies # {}
    /\ toProcess # <<>>
    /\ result.deps = Nil
    /\ file = AbsentFile

\* the last dependency query returned the empty output or null
ReplyEmpty(r) == r # Nil /\ ~r.err /\ r.output.kind \in {"empty", "null"}

\* C13: when the response for a dequeued package is empty or null, that
\* step adds no entry to the closure map, appends nothing to the queue,
\* raises no error, and the traversal goes on with the rest of the queue.
C13_EmptyResponse ==
    [][(queried' # queried /\ ReplyEmpty(lastReply')) =>
          /\ dependencies' = dependencies
          /\ toProcess' = Tail(toProcess)
          /\ pc' = "loop"
          /\ result' = Nil]_vars

C13_Witness ==
    /\ ReplyEmpty(lastReply)
    /\ pc = "loop"
    /\ toProcess # <<>>
    /\ ~Seen(seen, Head(toProcess))
    /\ DOMAIN dependencies # {}

\* the keys the packages of a set of keys declare
Children(F) == {BareKey(n) : n \in UNION {DOMAIN oracle[k] : k \in F}}

\* the number of edges of a shortest path from the root key to a key; more
\* than the number of keys when there is none
RECURSIVE DistFrom(_, _, _, _)
DistFrom(frontier, visited, k, key) ==
    IF key \in frontier THEN k
    ELSE IF frontier = {} THEN Cardinality(Keys) + 1
    ELSE DistFrom(Children(frontier) \ (visited \cup frontier),
                  visited \cup frontier, k + 1, key)

Dist(key) == DistFrom({RootKey}, {}, 0, key)

\* C14: packages are queried breadth-first, one query at a time: the root
\* is queried first, and a package queried before another is no farther
\* from the root, in dependency edges, than the other. A package is the key
\* it is queried under: name@version for the root, the bare name otherwise.
C14_BreadthFirst ==
    /\ [](queried # <<>> => queried[1] = RootKey)
    /\ [](\A i, j \in DOMAIN queried :
            i < j => Dist(queried[i]) <= Dist(queried[j]))
    /\ [][Len(queried') <= Len(queried) + 1]_vars

C14_Witness ==
    /\ pc = "done"
    /\ Len(queried) = 4
    /\ Dist(queried[2]) = 1
    /\ Dist(queried[3]) = 1
    /\ Dist(queried[4]) = 2
    /\ queried[4] \in Children({queried[2]})

====
